---------------------------- MODULE Spec2Model ----------------------------
(***************************************************************************)
(* Pellicula backend: the session/identity subsystem (register, login,     *)
(* getProfile, authenticateToken) and the favourites subsystem (add,       *)
(* remove, list with catalog enrichment), as a state machine.              *)
(*                                                                         *)
(* One request slot is one in-flight HTTP request.  An action is one       *)
(* synchronous stretch of a handler: from the request's arrival (the       *)
(* middleware and the handler's code up to its first await) or from the    *)
(* completion of an awaited call up to the next await or the response.     *)
(* Awaited store calls take effect atomically at the store.                *)
(*                                                                         *)
(* Strings that the code transforms (username: trim; email: trim and       *)
(* lowercase) are sequences of one-character strings, so that the          *)
(* transformations are computed.  Passwords and movie ids are plain        *)
(* strings: the code only tests them for emptiness, length and equality.   *)
(* Time is counted in days.                                                *)
(***************************************************************************)
EXTENDS Integers, Sequences, FiniteSets, TLC

\* ------------------------------------------------------------------ bounds

\* The clock stops advancing at MaxTime days.
MaxTime == 8
\* A stored document's version key __v is not incremented beyond MaxVersion.
MaxVersion == 3
\* The client keeps at most MaxWallet session tokens.
MaxWallet == 2
\* At most MaxGone accounts are deleted.
MaxGone == 1
\* A recording client of the list route stops after MaxListLog answers.
MaxListLog == 5
\* A recording client of the whole service stops after MaxLog answers.
MaxLog == 6
MaxCalls == 2
MaxDropped == 1

\* The request slots: at most two requests are in flight together.
Slots == {1, 2}

\* --------------------------------------------------------- program constants

\* { expiresIn: '7d' }
TokenTTL == 7
\* const saltRounds = 12
SaltRounds == 12
\* username: minlength 3, maxlength 20; password.length < 6
UsernameMinLength == 3
UsernameMaxLength == 20
PasswordMinLength == 6

\* process.env.JWT_SECRET, and a key that is not the server's.
JwtSecret == "JWT_SECRET"
OtherKey == "not-the-secret"

\* ------------------------------------------------------------ string helpers

RECURSIVE TrimLeft(_)
TrimLeft(s) == IF s # <<>> /\ Head(s) = " " THEN TrimLeft(Tail(s)) ELSE s

RECURSIVE TrimRight(_)
TrimRight(s) ==
    IF s # <<>> /\ s[Len(s)] = " " THEN TrimRight(SubSeq(s, 1, Len(s) - 1)) ELSE s

\* mongoose `trim: true`
Trim(s) == TrimRight(TrimLeft(s))

LowerChar(c) ==
    CASE c = "A" -> "a"
      [] c = "B" -> "b"
      [] c = "X" -> "x"
      [] OTHER -> c

\* mongoose `lowercase: true`
ToLowerCase(s) == [i \in 1..Len(s) |-> LowerChar(s[i])]

\* The setters of the schema paths; mongoose applies them to a document's
\* values and to the values of a query filter on the same path.
CastUsername(s) == Trim(s)
CastEmail(s) == ToLowerCase(Trim(s))

\* includes() that never finds the element (a number compared to strings).
IncludesNever(seq, x) == FALSE

\* Array.prototype.includes
Includes(seq, x) == \E i \in 1..Len(seq) : seq[i] = x

\* A filter that keeps every element.
FilterKeepsAll(seq, x) == seq

\* Array.prototype.filter(id => id !== x)
RECURSIVE FilterOut(_, _)
FilterOut(seq, x) ==
    IF seq = <<>> THEN <<>>
    ELSE IF Head(seq) = x THEN FilterOut(Tail(seq), x)
         ELSE <<Head(seq)>> \o FilterOut(Tail(seq), x)

\* Number of occurrences of x in seq.
Count(seq, x) == Cardinality({i \in 1..Len(seq) : seq[i] = x})

\* ------------------------------------------------------------------- bcrypt

\* bcrypt.hash(password, saltRounds): a salted digest; the plaintext is
\* recoverable from it only by comparison.
BcryptHash(password, salt) ==
    [alg |-> "bcrypt", cost |-> SaltRounds, salt |-> salt, digest |-> <<salt, password>>]

\* bcrypt.compare(password, hash)
BcryptCompare(password, hash) == hash.digest = <<hash.salt, password>>

\* ---------------------------------------------------------------------- jwt

\* A token: its payload and a signature binding the payload to a key.
Payload(userId, username, email, iat, exp) ==
    [userId |-> userId, username |-> username, email |-> email, iat |-> iat, exp |-> exp]

\* jwt.sign(claims, key, { expiresIn: '7d' }) at time t
JwtSign(userId, username, email, key, t) ==
    LET p == Payload(userId, username, email, t, t + TokenTTL)
    IN  [payload |-> p, sig |-> [key |-> key, over |-> p]]

\* One space-separated word of an Authorization header: plain text, or the
\* serialisation of a token.
Word(text) == [text |-> text, jwt |-> <<>>]
JwtWord(token) == [text |-> "<jwt>", jwt |-> <<token>>]

\* jwt.verify that still accepts a token at the instant it expires.
JwtVerifyErrorLate(word, key, t) ==
    IF word.jwt = <<>> THEN "jwt malformed"
    ELSE LET token == word.jwt[1]
         IN  IF token.sig.key # key \/ token.sig.over # token.payload
                 THEN "invalid signature"
             ELSE IF t > token.payload.exp THEN "jwt expired"
             ELSE "ok"

\* jwt.verify(word, key) at time t: the error, or "ok".
JwtVerifyError(word, key, t) ==
    IF word.jwt = <<>> THEN "jwt malformed"
    ELSE LET token == word.jwt[1]
         IN  IF token.sig.key # key \/ token.sig.over # token.payload
                 THEN "invalid signature"
             ELSE IF t >= token.payload.exp THEN "jwt expired"
             ELSE "ok"

\* ------------------------------------------------------------------ catalog

\* The movies TMDB knows, with the numeric id it returns for each.
CatalogIds == {"603", "27205"}

TmdbId(movieId) ==
    CASE movieId = "603" -> 603
      [] movieId = "27205" -> 27205
      [] OTHER -> 0

\* An id TMDB does not know.
UnknownId == "999"

\* response.data of GET /movie/{movieId}
MovieDetails(movieId) == [id |-> TmdbId(movieId)]

\* -------------------------------------------------------------------- state

VARIABLES
    users,      \* the users collection, in natural (insertion) order
    now,        \* the server's clock, in days
    wallet,     \* the session tokens the clients hold
    req,        \* per slot: the request in flight, or the last one answered
    lastDone,   \* the slot answered most recently (0: none yet)
    gone,       \* the ids of the users deleted (an ObjectId is never issued twice)
    auth,       \* the browser: AuthProvider's state, localStorage and its calls
    page,       \* the browser: SearchSection and the MovieCard of one movie
    log         \* the requests a recording client has seen answered, after a
                \* start marker (empty: no client is recording)

vars == <<users, now, wallet, req, lastDone, gone, auth, page, log>>

NoBody == [username |-> <<>>, email |-> <<>>, password |-> "", movieId |-> ""]

NoResp ==
    [status |-> 0, message |-> "", token |-> <<>>, user |-> <<>>,
     favourites |-> <<>>, movies |-> <<>>]

\* op: the route; pc: where the handler stands; header: the Authorization
\* header; user: req.user; doc: the handler's local copy of the user
\* document; lookups: the state of list's catalog calls; settled: those
\* calls in the order they settled (kept for a recording client); resp: the
\* response sent; sent: how many responses were sent for this request; at:
\* the time of arrival; prevSlot: the slot answered last when this request
\* arrived.
IdleSlot ==
    [op |-> "none", pc |-> "idle", header |-> <<>>, body |-> NoBody, user |-> <<>>,
     doc |-> <<>>, lookups |-> <<>>, settled |-> <<>>, resp |-> NoResp, sent |-> 0,
     at |-> 0, prevSlot |-> 0]

\* A call of the browser that has not settled: the function that made it,
\* the Authorization header the request interceptor attached, its body.
NoCall == [fn |-> "none", header |-> <<>>, body |-> NoBody]

Calls == 1..MaxCalls

\* AuthProvider before it is mounted, with what localStorage holds under
\* 'token'.  loggedOut: logout was the last of login and logout to complete.
AuthStart(token) ==
    [user |-> <<>>, loading |-> TRUE, token |-> token, mounted |-> FALSE,
     calls |-> [c \in Calls |-> NoCall], loggedOut |-> FALSE]

\* SearchSection and one MovieCard: favouriteIds and favourites (the two
\* useState of SearchSection), isTogglingFavourite (the card's), the toggle
\* requests not settled, how the last toggle settled with no change of user
\* since (its operation, or "failed"), and the clicks that started nothing.
PageStart ==
    [favouriteIds |-> {}, favourites |-> <<>>, isTogglingFavourite |-> FALSE,
     inflight |-> <<>>, last |-> "none", dropped |-> 0]

Init ==
    /\ users = <<>>
    /\ now = 0
    /\ wallet = {}
    /\ req = [r \in Slots |-> IdleSlot]
    /\ lastDone = 0
    /\ gone = {}
    /\ auth = AuthStart(<<>>)
    /\ page = PageStart
    /\ log = <<>>

\* A client records what is answered.
Recording == log # <<>>

\* The start with a recording client.
RecordingInit ==
    /\ users = <<>>
    /\ now = 0
    /\ wallet = {}
    /\ req = [r \in Slots |-> IdleSlot]
    /\ lastDone = 0
    /\ gone = {}
    /\ auth = AuthStart(<<>>)
    /\ page = PageStart
    /\ log = <<IdleSlot>>

\* The number of answered requests recorded.
Recorded == Len(log) - 1

InFlight == {r \in Slots : req[r].pc \notin {"idle", "done"}}

\* A new request may arrive in slot r while fewer than par are in flight.
CanArrive(r, par) ==
    /\ req[r].pc \in {"idle", "done"}
    /\ Cardinality(InFlight) < par

Arrived(r, op, header, body) ==
    [IdleSlot EXCEPT !.op = op, !.header = header, !.body = body, !.at = now,
                     !.prevSlot = lastDone]

\* res.status(status).json({ message, ... })
Answer(slot, status, message) ==
    [slot EXCEPT !.pc = "done", !.sent = @ + 1,
                 !.resp = [NoResp EXCEPT !.status = status, !.message = message]]

\* ------------------------------------------------------------- the store

Ids == {users[i].id : i \in DOMAIN users}
IndexOf(id) == CHOOSE i \in DOMAIN users : users[i].id = id

\* User.findById(id)
FindById(id) == IF id \in Ids THEN <<users[IndexOf(id)]>> ELSE <<>>

\* The documents matching { $or: [{ email }, { username }] }
MatchEmailOrUsername(email, username) ==
    {i \in DOMAIN users :
        \/ users[i].email = CastEmail(email)
        \/ users[i].username = CastUsername(username)}

\* A filter compared as submitted, without the schema's setters.
MatchEmailRaw(email) == {i \in DOMAIN users : users[i].email = email}

\* The documents matching { email }
MatchEmail(email) == {i \in DOMAIN users : users[i].email = CastEmail(email)}

\* Schema validation of a new document (after the setters).
ValidUser(doc) ==
    /\ Len(doc.username) >= UsernameMinLength
    /\ Len(doc.username) <= UsernameMaxLength
    /\ Len(doc.email) > 0

\* The unique indexes on username and email.
DuplicateKey(doc) ==
    \E i \in DOMAIN users :
        users[i].username = doc.username \/ users[i].email = doc.email

\* The public view of a user document that register sends ...
RegisterView(doc) ==
    [id |-> doc.id, username |-> doc.username, email |-> doc.email,
     favourites |-> doc.favourites, createdAt |-> <<>>]

\* A view that is the whole document (res.json({ user })).
ProfileViewWhole(doc) ==
    [id |-> doc.id, username |-> doc.username, email |-> doc.email,
     favourites |-> doc.favourites, createdAt |-> <<doc.createdAt>>,
     password |-> doc.password]

\* ... and the one login and getProfile send.
ProfileView(doc) ==
    [id |-> doc.id, username |-> doc.username, email |-> doc.email,
     favourites |-> doc.favourites, createdAt |-> <<doc.createdAt>>]

\* ------------------------------------------------------------- the clients

\* A client stores the token of a register or login response.
Keep(token) == IF Cardinality(wallet) < MaxWallet THEN wallet \cup {token} ELSE wallet

\* A held token's payload signed with a key that is not the server's, and a
\* held token whose expiry was edited without re-signing.
Forge(token) == [token EXCEPT !.sig.key = OtherKey]
Tamper(token) == [token EXCEPT !.payload.exp = MaxTime + TokenTTL + 1]

\* The Authorization headers of well-behaved clients.
HonestHeaders == {<<Word("Bearer"), JwtWord(t)>> : t \in wallet}

\* Every Authorization header: also none, no credential, garbage, a token
\* without the scheme word, forged and tampered tokens.
AllHeaders ==
    HonestHeaders
    \cup {<<>>, <<Word("Bearer")>>, <<Word("Bearer"), Word("")>>,
          <<Word("Bearer"), Word("garbage")>>}
    \cup {<<JwtWord(t)>> : t \in wallet}
    \cup {<<Word("Bearer"), JwtWord(Forge(t))>> : t \in wallet}
    \cup {<<Word("Bearer"), JwtWord(Tamper(t))>> : t \in wallet}

\* ---------------------------------------------------------- the middleware

\* authHeader && authHeader.split(' ')[1]
ExtractToken(header) == IF Len(header) >= 2 THEN <<header[2]>> ELSE <<>>

\* !token
NoToken(tok) == tok = <<>> \/ (tok[1].jwt = <<>> /\ tok[1].text = "")

\* A middleware that decodes the token without verifying it (jwt.decode).
AuthenticateTokenDecodeOnly(header, t) ==
    LET tok == ExtractToken(header)
    IN  IF NoToken(tok)
            THEN [status |-> 401, message |-> "Access token required", user |-> <<>>]
        ELSE IF tok[1].jwt = <<>>
            THEN [status |-> 403, message |-> "Invalid or expired token", user |-> <<>>]
        ELSE [status |-> 0, message |-> "", user |-> <<tok[1].jwt[1].payload>>]

\* A middleware that also looks the token up in a list of live sessions.
AuthenticateTokenRevoking(header, t) ==
    LET tok == ExtractToken(header)
    IN  IF NoToken(tok)
            THEN [status |-> 401, message |-> "Access token required", user |-> <<>>]
        ELSE IF JwtVerifyError(tok[1], JwtSecret, t) # "ok" \/ tok[1].jwt[1] \notin wallet
            THEN [status |-> 403, message |-> "Invalid or expired token", user |-> <<>>]
        ELSE [status |-> 0, message |-> "", user |-> <<tok[1].jwt[1].payload>>]

\* A middleware that reports why verification failed (err.message).
AuthenticateTokenTelling(header, t) ==
    LET tok == ExtractToken(header)
    IN  IF NoToken(tok)
            THEN [status |-> 401, message |-> "Access token required", user |-> <<>>]
        ELSE IF JwtVerifyError(tok[1], JwtSecret, t) # "ok"
            THEN [status |-> 403, message |-> JwtVerifyError(tok[1], JwtSecret, t),
                  user |-> <<>>]
        ELSE [status |-> 0, message |-> "", user |-> <<tok[1].jwt[1].payload>>]

\* authenticateToken at time t: the rejection it sends (status 401 or 403),
\* or status 0 and the decoded payload it attaches before calling next().
AuthenticateToken(header, t) ==
    LET tok == ExtractToken(header)
    IN  IF NoToken(tok)
            THEN [status |-> 401, message |-> "Access token required", user |-> <<>>]
        ELSE IF JwtVerifyError(tok[1], JwtSecret, t) # "ok"
            THEN [status |-> 403, message |-> "Invalid or expired token", user |-> <<>>]
        ELSE [status |-> 0, message |-> "", user |-> <<tok[1].jwt[1].payload>>]

\* A request to a protected route arrives: the middleware, then (if it
\* calls next) the slot as the handler finds it, at pc `entry`.
Protected(r, op, header, body, entry) ==
    LET a == Arrived(r, op, header, body)
        checked == AuthenticateToken(header, now)
    IN  IF checked.status # 0
            THEN Answer(a, checked.status, checked.message)
        ELSE [a EXCEPT !.pc = entry, !.user = checked.user]

\* The slot's new value; an answered request becomes the last one answered,
\* and a recording client notes the response.
Step(r, slot) ==
    /\ req' = [req EXCEPT ![r] = slot]
    /\ lastDone' = IF slot.pc = "done" THEN r ELSE lastDone
    /\ log' = IF Recording /\ slot.pc = "done" THEN Append(log, slot) ELSE log
    /\ UNCHANGED <<gone, auth, page>>

\* ----------------------------------------------------------------- register

\* register, up to `await User.findOne`
RegisterRequest(r, par, username, email, password) ==
    /\ CanArrive(r, par)
    /\ LET a == Arrived(r, "register", <<>>,
                        [NoBody EXCEPT !.username = username, !.email = email,
                                       !.password = password])
       IN  Step(r, IF username = <<>> \/ email = <<>> \/ password = ""
                       THEN Answer(a, 400, "All fields are required")
                   ELSE IF Len(password) < PasswordMinLength
                       THEN Answer(a, 400, "Password must be at least 6 characters")
                   ELSE [a EXCEPT !.pc = "findOne"])
    /\ UNCHANGED <<users, now, wallet>>

\* The message for the existing user that findOne returned.
ConflictMessage(existingUser, email) ==
    IF existingUser.email = email THEN "Email already registered"
    ELSE "Username already taken"

\* register, from the result of findOne to `await bcrypt.hash`.  findOne
\* returns any one of the matching documents.
RegisterFindOne(r) ==
    /\ req[r].op = "register" /\ req[r].pc = "findOne"
    /\ LET m == MatchEmailOrUsername(req[r].body.email, req[r].body.username)
       IN  \E i \in (IF m = {} THEN {0} ELSE m) :
               Step(r, IF i = 0 THEN [req[r] EXCEPT !.pc = "save"]
                       ELSE Answer(req[r], 400,
                                   ConflictMessage(users[i], req[r].body.email)))
    /\ UNCHANGED <<users, now, wallet>>

\* new User({ username, email, password: hashedPassword, favourites: [] })
NewUser(body, salt) ==
    [id |-> Len(users) + Cardinality(gone) + 1,
     username |-> CastUsername(body.username),
     email |-> CastEmail(body.email),
     password |-> BcryptHash(body.password, salt),
     favourites |-> <<>>,
     v |-> 0,
     createdAt |-> now]

\* A collection without the unique indexes.
InsertThrowsNoIndex(doc) == ~ValidUser(doc)

\* user.save() of a new document: it throws on a validation error and on a
\* duplicate key.
InsertThrows(doc) == ~ValidUser(doc) \/ DuplicateKey(doc)

\* A register whose insert is not atomic with its validation: the document
\* that fails validation is written before the error is thrown.
RegisterSaveThenValidate(r, salt) ==
    /\ req[r].op = "register" /\ req[r].pc = "save"
    /\ LET doc == NewUser(req[r].body, salt)
           token == JwtSign(doc.id, doc.username, doc.email, JwtSecret, now)
       IN  IF InsertThrows(doc)
               THEN /\ Step(r, Answer(req[r], 500, "Server error during registration"))
                    /\ users' = IF DuplicateKey(doc) THEN users ELSE Append(users, doc)
                    /\ UNCHANGED wallet
           ELSE /\ users' = Append(users, doc)
                /\ wallet' = Keep(token)
                /\ Step(r, [Answer(req[r], 201, "User registered successfully")
                               EXCEPT !.resp.token = <<token>>,
                                      !.resp.user = <<RegisterView(doc)>>])
    /\ UNCHANGED now

\* register, from the hash to the response
RegisterSave(r, salt) ==
    /\ req[r].op = "register" /\ req[r].pc = "save"
    /\ LET doc == NewUser(req[r].body, salt)
           token == JwtSign(doc.id, doc.username, doc.email, JwtSecret, now)
       IN  IF InsertThrows(doc)
               THEN /\ Step(r, Answer(req[r], 500, "Server error during registration"))
                    /\ UNCHANGED <<users, wallet>>
           ELSE /\ users' = Append(users, doc)
                /\ wallet' = Keep(token)
                /\ Step(r, [Answer(req[r], 201, "User registered successfully")
                               EXCEPT !.resp.token = <<token>>,
                                      !.resp.user = <<RegisterView(doc)>>])
    /\ UNCHANGED now

\* -------------------------------------------------------------------- login

\* login, up to `await User.findOne`
LoginRequest(r, par, email, password) ==
    /\ CanArrive(r, par)
    /\ LET a == Arrived(r, "login", <<>>,
                        [NoBody EXCEPT !.email = email, !.password = password])
       IN  Step(r, IF email = <<>> \/ password = ""
                       THEN Answer(a, 400, "Email and password are required")
                   ELSE [a EXCEPT !.pc = "findOne"])
    /\ UNCHANGED <<users, now, wallet>>

\* A login that tells an unknown email from a wrong password.
LoginResultTelling(slot, t) ==
    LET m == MatchEmail(slot.body.email)
    IN  IF m = {} THEN Answer(slot, 404, "User not found")
        ELSE LET user == users[CHOOSE i \in m : TRUE]
             IN  IF ~BcryptCompare(slot.body.password, user.password)
                     THEN Answer(slot, 401, "Invalid credentials")
                 ELSE [Answer(slot, 200, "Login successful")
                          EXCEPT !.resp.token =
                                     <<JwtSign(user.id, user.username, user.email,
                                               JwtSecret, t)>>,
                                 !.resp.user = <<ProfileView(user)>>]

\* login, from the result of findOne to the response
LoginResult(slot, t) ==
    LET m == MatchEmail(slot.body.email)
    IN  IF m = {} THEN Answer(slot, 401, "Invalid credentials")
        ELSE LET user == users[CHOOSE i \in m : TRUE]
             IN  IF ~BcryptCompare(slot.body.password, user.password)
                     THEN Answer(slot, 401, "Invalid credentials")
                 ELSE [Answer(slot, 200, "Login successful")
                          EXCEPT !.resp.token =
                                     <<JwtSign(user.id, user.username, user.email,
                                               JwtSecret, t)>>,
                                 !.resp.user = <<ProfileView(user)>>]

LoginFindOne(r) ==
    /\ req[r].op = "login" /\ req[r].pc = "findOne"
    /\ LET res == LoginResult(req[r], now)
       IN  /\ Step(r, res)
           /\ wallet' = IF res.resp.token # <<>> THEN Keep(res.resp.token[1]) ELSE wallet
    /\ UNCHANGED <<users, now>>

\* --------------------------------------------------------------- getProfile

ProfileRequest(r, par, header) ==
    /\ CanArrive(r, par)
    /\ Step(r, Protected(r, "profile", header, NoBody, "findById"))
    /\ UNCHANGED <<users, now, wallet>>

\* A profile built from the token's claims, without reading the store.
ProfileFromClaims(r) ==
    /\ req[r].op = "profile" /\ req[r].pc = "findById"
    /\ LET claims == req[r].user[1]
       IN  Step(r, [Answer(req[r], 200, "")
                       EXCEPT !.resp.user =
                                  <<[id |-> claims.userId, username |-> claims.username,
                                     email |-> claims.email, favourites |-> <<>>,
                                     createdAt |-> <<claims.iat>>]>>])
    /\ UNCHANGED <<users, now, wallet>>

\* getProfile, from the document read to the response
ProfileFindById(r) ==
    /\ req[r].op = "profile" /\ req[r].pc = "findById"
    /\ LET found == FindById(req[r].user[1].userId)
       IN  Step(r, IF found = <<>> THEN Answer(req[r], 404, "User not found")
                   ELSE [Answer(req[r], 200, "")
                            EXCEPT !.resp.user = <<ProfileView(found[1])>>])
    /\ UNCHANGED <<users, now, wallet>>

\* ------------------------------------------------------------ environment

\* Time passes.
Tick ==
    /\ now < MaxTime
    /\ now' = now + 1
    /\ UNCHANGED <<users, wallet, req, lastDone, gone, auth, page, log>>

\* A client discards a token (logout).
Logout(token) ==
    /\ token \in wallet
    /\ wallet' = wallet \ {token}
    /\ UNCHANGED <<users, now, req, lastDone, gone, auth, page, log>>

\* An account is deleted out of band (no route of this program does it).
DeleteAccount(id) ==
    /\ id \in Ids
    /\ Cardinality(gone) < MaxGone
    /\ users' = SelectSeq(users, LAMBDA u : u.id # id)
    /\ gone' = gone \cup {id}
    /\ UNCHANGED <<now, wallet, req, lastDone, auth, page, log>>

\* ------------------------------------------------------------ the catalog

\* getMovieDetails(movieId) resolves when TMDB knows the id and answers
\* (up), and throws otherwise.
Resolves(movieId, up) == movieId \in CatalogIds /\ up

\* ---------------------------------------------------- saving a user document

\* The handler's local copy of a stored document: what it read, and the
\* change it has made to favourites since ("none", "push": an element
\* appended with push(), "set": the path assigned a new array).
LocalDoc(stored, favourites, change) ==
    [id |-> stored.id, favourites |-> favourites, v |-> stored.v, change |-> change]

\* user.save() after favourites.push(x): the update { $push: x, $inc: __v },
\* matched by _id alone.
SavePush(stored, movieId) ==
    [stored EXCEPT !.favourites = Append(@, movieId), !.v = @ + 1]

\* user.save() after favourites = array: the update { $set: array, $inc: __v }
\* matched by _id and by the __v that was read; no match is a VersionError.
SaveSetThrows(stored, local) == stored.v # local.v

SaveSet(stored, local) ==
    [stored EXCEPT !.favourites = local.favourites, !.v = @ + 1]

\* ---------------------------------------------------------- addToFavourites

\* authenticateToken, then addToFavourites up to `await getMovieDetails`
AddRequest(r, par, header, movieId) ==
    /\ CanArrive(r, par)
    /\ LET a == Protected(r, "add", header, [NoBody EXCEPT !.movieId = movieId],
                          "getMovieDetails")
       IN  Step(r, IF a.pc # "done" /\ movieId = ""
                       THEN Answer(a, 400, "Movie ID is required")
                   ELSE a)
    /\ UNCHANGED <<users, now, wallet>>

\* An add that goes on whatever the catalog answered.
AddGetMovieDetailsUnchecked(r, up) ==
    /\ req[r].op = "add" /\ req[r].pc = "getMovieDetails"
    /\ Step(r, [req[r] EXCEPT !.pc = "findById"])
    /\ UNCHANGED <<users, now, wallet>>

\* from the catalog's answer to `await User.findById`
AddGetMovieDetails(r, up) ==
    /\ req[r].op = "add" /\ req[r].pc = "getMovieDetails"
    /\ Step(r, IF Resolves(req[r].body.movieId, up)
                   THEN [req[r] EXCEPT !.pc = "findById"]
               ELSE Answer(req[r], 404, "Movie not found"))
    /\ UNCHANGED <<users, now, wallet>>

\* An add that writes the id to the stored document before it looks whether
\* the id is already there.
AddFindByIdPushFirst(r) ==
    /\ req[r].op = "add" /\ req[r].pc = "findById"
    /\ LET found == FindById(req[r].user[1].userId)
           movieId == req[r].body.movieId
       IN  /\ Step(r, IF found = <<>> THEN Answer(req[r], 404, "User not found")
                      ELSE IF Includes(found[1].favourites, movieId)
                          THEN Answer(req[r], 400, "Movie already in favourites")
                      ELSE [req[r] EXCEPT
                               !.pc = "save",
                               !.doc = <<LocalDoc(found[1],
                                                  Append(found[1].favourites, movieId),
                                                  "push")>>])
           /\ users' = IF found # <<>> /\ Includes(found[1].favourites, movieId)
                                      /\ found[1].v < MaxVersion
                           THEN [users EXCEPT ![IndexOf(found[1].id)] =
                                                  SavePush(@, movieId)]
                       ELSE users
    /\ UNCHANGED <<now, wallet>>

\* from the document read to `await user.save()`
AddFindById(r) ==
    /\ req[r].op = "add" /\ req[r].pc = "findById"
    /\ LET found == FindById(req[r].user[1].userId)
           movieId == req[r].body.movieId
       IN  Step(r, IF found = <<>> THEN Answer(req[r], 404, "User not found")
                   ELSE IF Includes(found[1].favourites, movieId)
                       THEN Answer(req[r], 400, "Movie already in favourites")
                   ELSE [req[r] EXCEPT
                            !.pc = "save",
                            !.doc = <<LocalDoc(found[1],
                                               Append(found[1].favourites, movieId),
                                               "push")>>])
    /\ UNCHANGED <<users, now, wallet>>

\* An add that saves its whole local array over the stored one, whatever
\* was written since it read.
AddSaveWholeArray(r) ==
    /\ req[r].op = "add" /\ req[r].pc = "save"
    /\ LET local == req[r].doc[1]
       IN  IF local.id \notin Ids
               THEN /\ Step(r, Answer(req[r], 500, "Failed to add movie to favourites"))
                    /\ UNCHANGED users
           ELSE LET i == IndexOf(local.id)
                IN  /\ users[i].v < MaxVersion
                    /\ users' = [users EXCEPT ![i] = SaveSet(@, local)]
                    /\ Step(r, [Answer(req[r], 200, "Movie added to favourites")
                                   EXCEPT !.resp.favourites = local.favourites])
    /\ UNCHANGED <<now, wallet>>

\* from the save to the response, which carries the local copy
AddSave(r) ==
    /\ req[r].op = "add" /\ req[r].pc = "save"
    /\ LET local == req[r].doc[1]
       IN  IF local.id \notin Ids
               THEN /\ Step(r, Answer(req[r], 500, "Failed to add movie to favourites"))
                    /\ UNCHANGED users
           ELSE LET i == IndexOf(local.id)
                IN  /\ users[i].v < MaxVersion
                    /\ users' = [users EXCEPT ![i] = SavePush(@, req[r].body.movieId)]
                    /\ Step(r, [Answer(req[r], 200, "Movie added to favourites")
                                   EXCEPT !.resp.favourites = local.favourites])
    /\ UNCHANGED <<now, wallet>>

\* ----------------------------------------------------- removeFromFavourites

RemoveRequest(r, par, header, movieId) ==
    /\ CanArrive(r, par)
    /\ Step(r, Protected(r, "remove", header, [NoBody EXCEPT !.movieId = movieId],
                         "findById"))
    /\ UNCHANGED <<users, now, wallet>>

\* from the document read to `await user.save()`; assigning an array equal
\* to the current one leaves the path unmodified.
RemoveFindById(r) ==
    /\ req[r].op = "remove" /\ req[r].pc = "findById"
    /\ LET found == FindById(req[r].user[1].userId)
       IN  Step(r, IF found = <<>> THEN Answer(req[r], 404, "User not found")
                   ELSE LET kept == FilterOut(found[1].favourites, req[r].body.movieId)
                        IN  [req[r] EXCEPT
                                !.pc = "save",
                                !.doc = <<LocalDoc(found[1], kept,
                                                   IF kept = found[1].favourites
                                                       THEN "none" ELSE "set")>>])
    /\ UNCHANGED <<users, now, wallet>>

\* A remove without the catch around save(): the VersionError is thrown
\* out of the handler and nothing is sent.
RemoveSaveUncaught(r) ==
    /\ req[r].op = "remove" /\ req[r].pc = "save"
    /\ LET local == req[r].doc[1]
           ok == [Answer(req[r], 200, "Movie removed from favourites")
                     EXCEPT !.resp.favourites = local.favourites]
       IN  IF local.change = "none"
               THEN Step(r, ok) /\ UNCHANGED users
           ELSE IF local.id \notin Ids \/ SaveSetThrows(users[IndexOf(local.id)], local)
               THEN Step(r, [req[r] EXCEPT !.pc = "thrown"]) /\ UNCHANGED users
           ELSE LET i == IndexOf(local.id)
                IN  /\ users[i].v < MaxVersion
                    /\ users' = [users EXCEPT ![i] = SaveSet(@, local)]
                    /\ Step(r, ok)
    /\ UNCHANGED <<now, wallet>>

\* from the save to the response, which carries the local copy
RemoveSave(r) ==
    /\ req[r].op = "remove" /\ req[r].pc = "save"
    /\ LET local == req[r].doc[1]
           ok == [Answer(req[r], 200, "Movie removed from favourites")
                     EXCEPT !.resp.favourites = local.favourites]
           failed == Answer(req[r], 500, "Failed to remove movie from favourites")
       IN  IF local.change = "none"
               THEN Step(r, ok) /\ UNCHANGED users
           ELSE IF local.id \notin Ids \/ SaveSetThrows(users[IndexOf(local.id)], local)
               THEN Step(r, failed) /\ UNCHANGED users
           ELSE LET i == IndexOf(local.id)
                IN  /\ users[i].v < MaxVersion
                    /\ users' = [users EXCEPT ![i] = SaveSet(@, local)]
                    /\ Step(r, ok)
    /\ UNCHANGED <<now, wallet>>

\* ------------------------------------------------------------ getFavourites

ListRequest(r, par, header) ==
    /\ CanArrive(r, par)
    /\ Step(r, Protected(r, "list", header, NoBody, "findById"))
    /\ UNCHANGED <<users, now, wallet>>

\* from the document read to `await Promise.all`: one catalog call per
\* element of favourites is started.
ListFindById(r) ==
    /\ req[r].op = "list" /\ req[r].pc = "findById"
    /\ LET found == FindById(req[r].user[1].userId)
       IN  Step(r, IF found = <<>> THEN Answer(req[r], 404, "User not found")
                   ELSE [req[r] EXCEPT
                            !.pc = "lookups",
                            !.doc = <<LocalDoc(found[1], found[1].favourites, "none")>>,
                            !.lookups = [i \in 1..Len(found[1].favourites) |-> "pending"]])
    /\ UNCHANGED <<users, now, wallet>>

\* The i-th catalog call settles: its details, or null after the catch.
ListLookupDone(r, i, up) ==
    /\ req[r].op = "list" /\ req[r].pc = "lookups"
    /\ i \in DOMAIN req[r].lookups
    /\ req[r].lookups[i] = "pending"
    /\ Step(r, [req[r] EXCEPT
                   !.lookups[i] = IF Resolves(req[r].doc[1].favourites[i], up)
                                      THEN "ok" ELSE "null",
                   !.settled = IF Recording THEN Append(@, i) ELSE @])
    /\ UNCHANGED <<users, now, wallet>>

\* One failed lookup empties the whole result.
ValidFavouritesAllOrNone(favourites, lookups) ==
    IF \E i \in DOMAIN lookups : lookups[i] # "ok" THEN <<>>
    ELSE [i \in DOMAIN favourites |-> MovieDetails(favourites[i])]

\* favouriteMovies.filter(movie => movie !== null)
RECURSIVE ValidFavourites(_, _)
ValidFavourites(favourites, lookups) ==
    IF favourites = <<>> THEN <<>>
    ELSE (IF Head(lookups) = "ok" THEN <<MovieDetails(Head(favourites))>> ELSE <<>>)
         \o ValidFavourites(Tail(favourites), Tail(lookups))

\* The details of the resolved lookups in the order they settled.
RECURSIVE InSettledOrder(_, _, _)
InSettledOrder(favourites, lookups, settled) ==
    IF settled = <<>> THEN <<>>
    ELSE (IF lookups[Head(settled)] = "ok"
              THEN <<MovieDetails(favourites[Head(settled)])>> ELSE <<>>)
         \o InSettledOrder(favourites, lookups, Tail(settled))

\* A list that collects each result as its lookup settles (push in then()).
ListRespondAsSettled(r) ==
    /\ req[r].op = "list" /\ req[r].pc = "lookups"
    /\ \A i \in DOMAIN req[r].lookups : req[r].lookups[i] # "pending"
    /\ Step(r, [Answer(req[r], 200, "")
                   EXCEPT !.resp.movies =
                              InSettledOrder(req[r].doc[1].favourites, req[r].lookups,
                                             req[r].settled)])
    /\ UNCHANGED <<users, now, wallet>>

\* A list that also deletes from the stored favourites the ids whose lookup
\* failed.
ListRespondPruning(r) ==
    /\ req[r].op = "list" /\ req[r].pc = "lookups"
    /\ \A i \in DOMAIN req[r].lookups : req[r].lookups[i] # "pending"
    /\ Step(r, [Answer(req[r], 200, "")
                   EXCEPT !.resp.movies =
                              ValidFavourites(req[r].doc[1].favourites, req[r].lookups)])
    /\ users' = [i \in DOMAIN users |->
                    IF users[i].id = req[r].doc[1].id
                        THEN [users[i] EXCEPT !.favourites =
                                 SelectSeq(@, LAMBDA x :
                                     \E k \in DOMAIN req[r].lookups :
                                         /\ req[r].doc[1].favourites[k] = x
                                         /\ req[r].lookups[k] = "ok")]
                    ELSE users[i]]
    /\ UNCHANGED <<now, wallet>>

\* A list that answers without waiting for every lookup (Promise.race).
ListRespondEarly(r) ==
    /\ req[r].op = "list" /\ req[r].pc = "lookups"
    /\ Step(r, [Answer(req[r], 200, "")
                   EXCEPT !.resp.movies =
                              ValidFavourites(req[r].doc[1].favourites, req[r].lookups)])
    /\ UNCHANGED <<users, now, wallet>>

\* Promise.all resolved: the response
ListRespond(r) ==
    /\ req[r].op = "list" /\ req[r].pc = "lookups"
    /\ \A i \in DOMAIN req[r].lookups : req[r].lookups[i] # "pending"
    /\ Step(r, [Answer(req[r], 200, "")
                   EXCEPT !.resp.movies =
                              ValidFavourites(req[r].doc[1].favourites, req[r].lookups)])
    /\ UNCHANGED <<users, now, wallet>>

\* ------------------------------------------------------------------ inputs

Al == <<"a", "l">>
Alice == <<"a", "l", "i">>
Bob == <<"b", "o", "b">>
AliceMail == <<"a", "@", "x">>
AliceMailUpper == <<"A", "@", "X">>
BobMail == <<"b", "@", "x">>
\* A string without '@'.
NoAtMail == <<"b", "x">>
\* alice, alice@x.com
AliceFull == <<"a", "l", "i", "c", "e">>
AliceFullMail == <<"a", "l", "i", "c", "e", "@", "x", ".", "c", "o", "m">>

\* The register bodies tried: valid ones, a mixed-case email, colliding
\* usernames and emails, a short username, a short password, a missing field.
RegisterInputs ==
    {<<Alice, AliceMail, "secret1">>, <<Bob, BobMail, "secret1">>,
     <<Alice, BobMail, "secret1">>, <<Bob, AliceMailUpper, "secret1">>,
     <<Al, BobMail, "secret1">>, <<Alice, AliceMail, "12345">>,
     <<<<>>, AliceMail, "secret1">>}

\* The login bodies tried: right and wrong passwords, a mixed-case email, a
\* missing field.
LoginInputs ==
    {<<AliceMail, "secret1">>, <<AliceMail, "hunter22">>,
     <<AliceMailUpper, "secret1">>, <<BobMail, "secret1">>, <<<<>>, "secret1">>}

\* The set of the ids in an array of favourites.
Members(favourites) == {favourites[i] : i \in DOMAIN favourites}

\* ---------------------------------------------------------------- browser

\* The user of the browser, registered, with these favourites.
RegisteredUser(favourites) ==
    [id |-> 1, username |-> CastUsername(Alice), email |-> CastEmail(AliceMail),
     password |-> BcryptHash("secret1", "salt"), favourites |-> favourites,
     v |-> Len(favourites), createdAt |-> 0]

\* api.interceptors.request: the header attached to a request.
Authorization(token) ==
    IF token = <<>> THEN <<>> ELSE <<Word("Bearer"), JwtWord(token[1])>>

\* What the server answers to POST /auth/login.
LoginReply(body, t) == LoginResult([IdleSlot EXCEPT !.op = "login", !.body = body], t).resp

\* What the server answers to GET /auth/profile.
ProfileReply(header, t) ==
    LET a == AuthenticateToken(header, t)
    IN  IF a.status # 0 THEN [NoResp EXCEPT !.status = a.status]
        ELSE LET found == FindById(a.user[1].userId)
             IN  IF found = <<>> THEN [NoResp EXCEPT !.status = 404]
                 ELSE [NoResp EXCEPT !.status = 200, !.user = <<ProfileView(found[1])>>]

\* useEffect(..., [user]) of SearchSection
UserEffect(p, user) ==
    [p EXCEPT !.favouriteIds = IF user = <<>> THEN {} ELSE Members(user[1].favourites),
              !.last = "none"]

\* A call slot is free.
Free(c) == auth.calls[c].fn = "none"

\* What no action of the browser changes.
ServerIdle == UNCHANGED <<now, wallet, req, lastDone, gone, log>>

\* useEffect(..., []) of AuthProvider
Mount ==
    /\ ~auth.mounted
    /\ auth' = IF auth.token # <<>>
                   THEN [auth EXCEPT !.mounted = TRUE,
                                     !.calls[1] = [NoCall EXCEPT
                                         !.fn = "fetchUserProfile",
                                         !.header = Authorization(auth.token)]]
               ELSE [auth EXCEPT !.mounted = TRUE, !.loading = FALSE]
    /\ UNCHANGED <<users, page>>
    /\ ServerIdle

\* login, up to `await api.post`
LoginCall(c, email, password) ==
    /\ auth.mounted /\ Free(c)
    /\ auth' = [auth EXCEPT !.calls[c] =
                   [fn |-> "login", header |-> Authorization(auth.token),
                    body |-> [NoBody EXCEPT !.email = email, !.password = password]]]
    /\ UNCHANGED <<users, page>>
    /\ ServerIdle

\* login, from the response on; net: the request reached the server and its
\* answer the browser.
LoginSettles(c, net) ==
    /\ auth.calls[c].fn = "login"
    /\ LET reply == LoginReply(auth.calls[c].body, now)
       IN  IF net /\ reply.status = 200
               THEN /\ auth' = [auth EXCEPT !.calls[c] = NoCall,
                                            !.token = reply.token,
                                            !.user = reply.user,
                                            !.loggedOut = FALSE]
                    /\ page' = UserEffect(page, reply.user)
           ELSE /\ auth' = [auth EXCEPT !.calls[c] = NoCall]
                /\ page' = page
    /\ UNCHANGED users
    /\ ServerIdle

\* fetchUserProfile, from the response on
FetchUserProfileSettles(c, net) ==
    /\ auth.calls[c].fn = "fetchUserProfile"
    /\ LET reply == ProfileReply(auth.calls[c].header, now)
       IN  IF net /\ reply.status = 200
               THEN /\ auth' = [auth EXCEPT !.calls[c] = NoCall, !.user = reply.user,
                                            !.loading = FALSE]
                    /\ page' = UserEffect(page, reply.user)
           ELSE /\ auth' = [auth EXCEPT !.calls[c] = NoCall, !.token = <<>>,
                                        !.loading = FALSE]
                /\ page' = page
    /\ UNCHANGED users
    /\ ServerIdle

\* refreshUser, up to `await api.get`; Dashboard calls it when it is
\* mounted with a user.
RefreshUserCall(c) ==
    /\ auth.mounted /\ Free(c) /\ auth.user # <<>>
    /\ auth' = [auth EXCEPT !.calls[c] =
                   [NoCall EXCEPT !.fn = "refreshUser",
                                  !.header = Authorization(auth.token)]]
    /\ UNCHANGED <<users, page>>
    /\ ServerIdle

\* refreshUser, from the response on
RefreshUserSettles(c, net) ==
    /\ auth.calls[c].fn = "refreshUser"
    /\ LET reply == ProfileReply(auth.calls[c].header, now)
           user == IF net /\ reply.status = 200 THEN reply.user ELSE <<>>
       IN  /\ auth' = IF user # <<>>
                          THEN [auth EXCEPT !.calls[c] = NoCall, !.user = user]
                      ELSE [auth EXCEPT !.calls[c] = NoCall, !.token = <<>>,
                                        !.user = <<>>]
           /\ page' = IF user = <<>> /\ auth.user = <<>> THEN page
                      ELSE UserEffect(page, user)
    /\ UNCHANGED users
    /\ ServerIdle

\* logout, called from the Navbar's button, which is shown with a user.
LogoutClick ==
    /\ auth.mounted /\ auth.user # <<>>
    /\ auth' = [auth EXCEPT !.token = <<>>, !.user = <<>>, !.loggedOut = TRUE]
    /\ page' = UserEffect(page, <<>>)
    /\ UNCHANGED users
    /\ ServerIdle

\* The toggle request that MovieCard and SearchSection send for a movie.
ToggleCall(movieId) ==
    [op |-> IF movieId \in page.favouriteIds THEN "remove" ELSE "add",
     movieId |-> movieId, header |-> Authorization(auth.token)]

\* Every write in flight can still be counted in the document's version.
TogglesLeft ==
    /\ Len(page.inflight) < MaxCalls
    /\ \A i \in DOMAIN users : users[i].v + Len(page.inflight) < MaxVersion

\* A click on the heart of a card without the isTogglingFavourite guard.
ClickUnguarded(movieId) ==
    /\ auth.mounted /\ auth.user # <<>>
    /\ TogglesLeft
    /\ page' = [page EXCEPT !.isTogglingFavourite = TRUE,
                            !.inflight = Append(@, ToggleCall(movieId))]
    /\ UNCHANGED <<users, auth>>
    /\ ServerIdle

\* MovieCard.handleToggleFavourite up to `await onToggleFavourite`, which is
\* SearchSection.handleToggleFavourite up to its `await`.  The button is
\* there with a user only.
Click(movieId) ==
    /\ auth.mounted /\ auth.user # <<>>
    /\ IF page.isTogglingFavourite
           THEN /\ page.dropped < MaxDropped
                /\ page' = [page EXCEPT !.dropped = @ + 1]
       ELSE /\ TogglesLeft
            /\ page' = [page EXCEPT !.isTogglingFavourite = TRUE,
                                    !.inflight = Append(@, ToggleCall(movieId))]
    /\ UNCHANGED <<users, auth>>
    /\ ServerIdle

\* What the server does with a toggle request and what it answers: the
\* stored users afterwards and the status.
ToggleReply(call, up, t) ==
    LET a == AuthenticateToken(call.header, t)
        found == IF a.status = 0 THEN FindById(a.user[1].userId) ELSE <<>>
        failed(status) == [users |-> users, status |-> status]
    IN  IF a.status # 0 THEN failed(a.status)
        ELSE IF call.op = "add" /\ ~Resolves(call.movieId, up) THEN failed(404)
        ELSE IF found = <<>> THEN failed(404)
        ELSE IF call.op = "add"
            THEN IF Includes(found[1].favourites, call.movieId) THEN failed(400)
                 ELSE [users |-> [users EXCEPT ![IndexOf(found[1].id)] =
                                                   SavePush(@, call.movieId)],
                       status |-> 200]
        ELSE LET kept == FilterOut(found[1].favourites, call.movieId)
             IN  IF kept = found[1].favourites THEN [users |-> users, status |-> 200]
                 ELSE [users |-> [users EXCEPT ![IndexOf(found[1].id)] =
                                     SaveSet(@, LocalDoc(found[1], kept, "set"))],
                       status |-> 200]

\* Both handleToggleFavourite from the response on: setFavourites after a
\* success, the error logged after a failure, and the card's finally.
ToggleSettles(up, net) ==
    /\ page.inflight # <<>>
    /\ LET call == Head(page.inflight)
           reply == ToggleReply(call, up, now)
           ok == net /\ reply.status = 200
       IN  /\ users' = IF net THEN reply.users ELSE users
           /\ page' = [page EXCEPT
                          !.inflight = Tail(@),
                          !.isTogglingFavourite = FALSE,
                          !.last = IF ok THEN call.op ELSE "failed",
                          !.favourites =
                              IF ~ok THEN @
                              ELSE IF call.op = "add" THEN Append(@, call.movieId)
                              ELSE FilterOut(@, call.movieId)]
    /\ UNCHANGED auth
    /\ ServerIdle

\* The movie of the card.
CardMovie == "603"

\* ---------------------------------------------------------- specifications

\* The favourites routes of the registered users, par requests in flight.
FavNext(par) ==
    \E r \in Slots :
        \/ RegisterRequest(r, par, Alice, AliceMail, "secret1")
        \/ RegisterFindOne(r)
        \/ RegisterSave(r, "salt")
        \/ \E h \in HonestHeaders, x \in {"", "603", "27205"} : AddRequest(r, par, h, x)
        \/ \E up \in BOOLEAN : AddGetMovieDetails(r, up)
        \/ AddFindById(r)
        \/ AddSave(r)
        \/ \E h \in HonestHeaders, x \in {"603", "27205"} : RemoveRequest(r, par, h, x)
        \/ RemoveFindById(r)
        \/ RemoveSave(r)
        \/ \E h \in HonestHeaders : ListRequest(r, par, h)
        \/ ListFindById(r)
        \/ \E i \in 1..4, up \in BOOLEAN : ListLookupDone(r, i, up)
        \/ ListRespond(r)

\* Two requests in flight together.
FavSpec == Init /\ [][FavNext(2)]_vars

\* One request at a time.
FavSeqSpec == Init /\ [][FavNext(1)]_vars

\* Adding and removing with a catalog that knows some ids, answers or not,
\* and does not know others; two requests in flight together.
CatalogNext ==
    \E r \in Slots :
        \/ RegisterRequest(r, 2, Alice, AliceMail, "secret1")
        \/ RegisterFindOne(r)
        \/ RegisterSave(r, "salt")
        \/ \E h \in HonestHeaders, x \in {"", "603", "27205", UnknownId} :
               AddRequest(r, 2, h, x)
        \/ \E up \in BOOLEAN : AddGetMovieDetails(r, up)
        \/ AddFindById(r)
        \/ AddSave(r)
        \/ \E h \in HonestHeaders, x \in {"603", "27205"} : RemoveRequest(r, 2, h, x)
        \/ RemoveFindById(r)
        \/ RemoveSave(r)

CatalogSpec == Init /\ [][CatalogNext]_vars

\* The session routes of one client over time: one request at a time in
\* one slot, any Authorization header, tokens expiring.
SessionNext ==
    \/ \E r \in {1} :
        \/ RegisterRequest(r, 1, Alice, AliceMail, "secret1")
        \/ RegisterFindOne(r)
        \/ RegisterSave(r, "salt")
        \/ LoginRequest(r, 1, AliceMail, "secret1")
        \/ LoginFindOne(r)
        \/ \E h \in AllHeaders : ProfileRequest(r, 1, h)
        \/ ProfileFindById(r)
        \/ \E h \in AllHeaders : ListRequest(r, 1, h)
        \/ ListFindById(r)
        \/ ListRespond(r)
    \/ Tick
    \/ \E t \in wallet : Logout(t)

SessionSpec == Init /\ [][SessionNext]_vars

\* Registration and login with every kind of input, par requests in flight.
AuthNext(par) ==
    \E r \in Slots :
        \/ \E in \in RegisterInputs : RegisterRequest(r, par, in[1], in[2], in[3])
        \/ RegisterFindOne(r)
        \/ RegisterSave(r, "salt")
        \/ \E in \in LoginInputs : LoginRequest(r, par, in[1], in[2])
        \/ LoginFindOne(r)

\* Two requests in flight together.
AuthSpec == Init /\ [][AuthNext(2)]_vars

\* One request at a time.
AuthSeqSpec == Init /\ [][AuthNext(1)]_vars

\* The register and login bodies of the account routes: a valid user, a
\* short username, a taken email, an email without '@'; a right and a wrong
\* password, an unknown email.
AccountRegisterInputs ==
    {<<Alice, AliceMail, "secret1">>, <<Al, BobMail, "secret1">>,
     <<Bob, AliceMail, "secret1">>, <<Bob, NoAtMail, "secret1">>}

AccountLoginInputs ==
    {<<AliceMail, "secret1">>, <<AliceMail, "hunter22">>, <<BobMail, "secret1">>}

\* The headers of the profile requests: held tokens, none, garbage.
AccountHeaders == HonestHeaders \cup {<<>>, <<Word("Bearer"), Word("garbage")>>}

\* An account over its life: registration, login, the profile, favourites
\* added and removed, and the account deleted out of band; par requests in
\* flight.
AccountNext(par) ==
    \/ \E r \in 1..par :
        \/ \E in \in AccountRegisterInputs : RegisterRequest(r, par, in[1], in[2], in[3])
        \/ RegisterFindOne(r)
        \/ RegisterSave(r, "salt")
        \/ \E in \in AccountLoginInputs : LoginRequest(r, par, in[1], in[2])
        \/ LoginFindOne(r)
        \/ \E h \in AccountHeaders : ProfileRequest(r, par, h)
        \/ ProfileFindById(r)
        \/ \E h \in HonestHeaders : AddRequest(r, par, h, "603")
        \/ \E up \in BOOLEAN : AddGetMovieDetails(r, up)
        \/ AddFindById(r)
        \/ AddSave(r)
        \/ \E h \in HonestHeaders : RemoveRequest(r, par, h, "603")
        \/ RemoveFindById(r)
        \/ RemoveSave(r)
    \/ \E id \in Ids : DeleteAccount(id)

\* One client, one request at a time.
AccountSeqSpec == Init /\ [][AccountNext(1)]_vars

\* The list route seen by one recording client: a user with up to two
\* favourites, lists whose lookups settle in any order with any outcome.
ListNext ==
    /\ Recorded < MaxListLog
    /\ \E r \in {1} :
        \/ RegisterRequest(r, 1, Alice, AliceMail, "secret1")
        \/ RegisterFindOne(r)
        \/ RegisterSave(r, "salt")
        \/ \E h \in HonestHeaders, x \in CatalogIds : AddRequest(r, 1, h, x)
        \/ AddGetMovieDetails(r, TRUE)
        \/ AddFindById(r)
        \/ AddSave(r)
        \/ \E h \in HonestHeaders : ListRequest(r, 1, h)
        \/ ListFindById(r)
        \/ \E i \in 1..2, up \in BOOLEAN : ListLookupDone(r, i, up)
        \/ ListRespond(r)

ListSpec == RecordingInit /\ [][ListNext]_vars

\* The whole service seen by one recording client, one request at a time,
\* with a catalog that resolves every id it knows: the client registers,
\* logs in, adds, lists and removes in any order.
ScenarioNext ==
    /\ Recorded < MaxLog
    /\ \E r \in {1} :
        \/ RegisterRequest(r, 1, AliceFull, AliceFullMail, "secret1")
        \/ RegisterFindOne(r)
        \/ RegisterSave(r, "salt")
        \/ LoginRequest(r, 1, AliceFullMail, "secret1")
        \/ LoginFindOne(r)
        \/ \E h \in HonestHeaders : AddRequest(r, 1, h, "603")
        \/ AddGetMovieDetails(r, TRUE)
        \/ AddFindById(r)
        \/ AddSave(r)
        \/ \E h \in HonestHeaders : RemoveRequest(r, 1, h, "603")
        \/ RemoveFindById(r)
        \/ RemoveSave(r)
        \/ \E h \in HonestHeaders : ListRequest(r, 1, h)
        \/ ListFindById(r)
        \/ \E i \in 1..2 : ListLookupDone(r, i, TRUE)
        \/ ListRespond(r)

ScenarioSpec == RecordingInit /\ [][ScenarioNext]_vars

\* The credential of the last protected request, presented again (a copy
\* of a token outlives the client's logout).
ReplayHeaders == {req[r].header : r \in {p \in Slots : Len(req[p].header) >= 2}}

\* Tokens over their life: slot 2 serves register and login, slot 1 a
\* protected route that changes favourites, one request at a time; time
\* passes (a request is answered within the day it arrives), the client
\* logs out, and a credential once presented can be presented again.
TokenNext ==
    \/ \E r \in {2} :
        \/ RegisterRequest(r, 1, Alice, AliceMail, "secret1")
        \/ RegisterFindOne(r)
        \/ RegisterSave(r, "salt")
        \/ LoginRequest(r, 1, AliceMail, "secret1")
        \/ LoginFindOne(r)
    \/ \E r \in {1} :
        \/ \E h \in HonestHeaders \cup ReplayHeaders : AddRequest(r, 1, h, "603")
        \/ AddGetMovieDetails(r, TRUE)
        \/ AddFindById(r)
        \/ AddSave(r)
    \/ InFlight = {} /\ Tick
    \/ \E t \in wallet : Logout(t)

TokenSpec == Init /\ [][TokenNext]_vars

\* Two users and every route, par requests in flight: who changes whose
\* favourites.
FrameNext(par) ==
    \/ \E r \in {1} :
           \/ \E in \in {<<Alice, AliceMail>>, <<Bob, BobMail>>} :
                  RegisterRequest(r, par, in[1], in[2], "secret1")
           \/ RegisterFindOne(r)
           \/ RegisterSave(r, "salt")
           \/ LoginRequest(r, par, AliceMail, "secret1")
           \/ LoginFindOne(r)
           \/ \E h \in HonestHeaders : ProfileRequest(r, par, h)
           \/ ProfileFindById(r)
           \/ \E h \in HonestHeaders : ListRequest(r, par, h)
           \/ ListFindById(r)
           \/ \E i \in 1..2, up \in BOOLEAN : ListLookupDone(r, i, up)
           \/ ListRespond(r)
    \/ \E r \in 1..par :
           \/ \E h \in HonestHeaders : AddRequest(r, par, h, "603")
           \/ AddGetMovieDetails(r, TRUE)
           \/ AddFindById(r)
           \/ AddSave(r)
           \/ \E h \in HonestHeaders : RemoveRequest(r, par, h, "603")
           \/ RemoveFindById(r)
           \/ RemoveSave(r)

\* Two requests in flight together.
FrameSpec == Init /\ [][FrameNext(2)]_vars

\* Adding with every outcome: no id, an id the catalog does not confirm, an
\* account deleted meanwhile, an id already there; two requests in flight.
AddNext ==
    \/ \E r \in Slots :
           \/ RegisterRequest(r, 2, Alice, AliceMail, "secret1")
           \/ RegisterFindOne(r)
           \/ RegisterSave(r, "salt")
           \/ \E h \in AccountHeaders, x \in {"", "603", UnknownId} :
                  AddRequest(r, 2, h, x)
           \/ \E up \in BOOLEAN : AddGetMovieDetails(r, up)
           \/ AddFindById(r)
           \/ AddSave(r)
    \/ \E id \in Ids : DeleteAccount(id)

AddSpec == Init /\ [][AddNext]_vars

\* A request that writes favourites is accepted while every write in flight
\* can still be counted in the document's version.
VersionsLeft ==
    \A i \in DOMAIN users :
        users[i].v + Cardinality({r \in InFlight : req[r].op \in {"add", "remove"}})
            < MaxVersion

\* The continuation of the request in slot r after the call it awaits has
\* completed (resolved or thrown).
HandlerStep(r) ==
    \/ RegisterFindOne(r)
    \/ RegisterSave(r, "salt")
    \/ LoginFindOne(r)
    \/ ProfileFindById(r)
    \/ \E up \in BOOLEAN : AddGetMovieDetails(r, up)
    \/ AddFindById(r)
    \/ AddSave(r)
    \/ RemoveFindById(r)
    \/ RemoveSave(r)
    \/ ListFindById(r)
    \/ \E i \in 1..2, up \in BOOLEAN : ListLookupDone(r, i, up)
    \/ ListRespond(r)

\* Every route, with or without a token; two requests that write
\* favourites may be in flight together.
LiveNext ==
    \/ \E r \in {1} :
           \/ RegisterRequest(r, 2, Alice, AliceMail, "secret1")
           \/ LoginRequest(r, 2, AliceMail, "secret1")
           \/ \E h \in HonestHeaders \cup {<<>>} : ProfileRequest(r, 2, h)
           \/ \E h \in HonestHeaders : ListRequest(r, 2, h)
    \/ \E r \in Slots :
           \/ \E h \in HonestHeaders : VersionsLeft /\ AddRequest(r, 2, h, "603")
           \/ \E h \in HonestHeaders : VersionsLeft /\ RemoveRequest(r, 2, h, "603")
           \/ HandlerStep(r)

\* Each awaited call completes, and the event loop then runs the
\* continuation of the request that awaited it.
LiveSpec == Init /\ [][LiveNext]_vars /\ \A r \in Slots : WF_vars(HandlerStep(r))

\* The browser of a registered user from the start of the app, with or
\* without a token kept from an earlier visit.
BrowserInit ==
    /\ \E favourites \in {<<>>, <<CardMovie>>} : users = <<RegisteredUser(favourites)>>
    /\ now = 0
    /\ wallet = {}
    /\ req = [r \in Slots |-> IdleSlot]
    /\ lastDone = 0
    /\ gone = {}
    /\ \E token \in {<<>>, <<JwtSign(1, CastUsername(Alice), CastEmail(AliceMail),
                                    JwtSecret, 0)>>} :
           auth = AuthStart(token)
    /\ page = PageStart
    /\ log = <<>>

BrowserNext ==
    \/ Mount
    \/ \E c \in Calls, password \in {"secret1", "hunter22"} :
           LoginCall(c, AliceMail, password)
    \/ \E c \in Calls, net \in BOOLEAN : LoginSettles(c, net)
    \/ \E c \in Calls, net \in BOOLEAN : FetchUserProfileSettles(c, net)
    \/ \E c \in Calls : RefreshUserCall(c)
    \/ \E c \in Calls, net \in BOOLEAN : RefreshUserSettles(c, net)
    \/ LogoutClick
    \/ Click(CardMovie)
    \/ \E up \in BOOLEAN, net \in BOOLEAN : ToggleSettles(up, net)

BrowserSpec == BrowserInit /\ [][BrowserNext]_vars

\* ------------------------------------------------------------------ claims

\* The request in slot r was answered by its route handler (the middleware
\* let it through).
Handled(r, op) == req[r].op = op /\ req[r].pc = "done" /\ req[r].user # <<>>

\* The stored favourites of the user a handled request acted for.
StoredFavourites(r) == users[IndexOf(req[r].user[1].userId)].favourites

\* C1: no user's persisted favourites holds the same movie id more than
\* once, whatever the interleaving of add and remove requests.
C1_NoDuplicateFavourites ==
    \A i \in DOMAIN users : \A x \in CatalogIds : Count(users[i].favourites, x) <= 1

\* The request answered in slot r directly followed a successful add of the
\* same movie by the same user (answered in slot p), the catalog confirmed
\* the movie again, and nothing was answered since.
SecondAdd(r, p) ==
    /\ Handled(r, "add") /\ Handled(p, "add")
    /\ p # r /\ req[r].prevSlot = p /\ lastDone = r
    /\ req[p].resp.status = 200
    /\ req[p].user[1].userId = req[r].user[1].userId
    /\ req[p].body.movieId = req[r].body.movieId
    /\ req[r].resp.message # "Movie not found"

\* C2: of two add requests with the same confirmed id issued one after the
\* other, the first succeeding, the second is answered 400 'Movie already
\* in favourites', and the set then holds the id exactly once.
C2_SecondAddRejected ==
    \A r \in Slots, p \in Slots :
        SecondAdd(r, p) =>
            /\ req[r].resp.status = 400
            /\ req[r].resp.message = "Movie already in favourites"
            /\ Count(StoredFavourites(r), req[r].body.movieId) = 1

C2_Witness == \E r \in Slots, p \in Slots : SecondAdd(r, p) /\ req[r].resp.status = 400

\* The remove answered in slot r directly followed a remove of the same
\* movie by the same user (answered in slot p), and nothing was answered
\* since.
SecondRemove(r, p) ==
    /\ Handled(r, "remove") /\ Handled(p, "remove")
    /\ p # r /\ req[r].prevSlot = p /\ lastDone = r
    /\ req[p].user[1].userId = req[r].user[1].userId
    /\ req[p].body.movieId = req[r].body.movieId

\* After the second of two removes in succession the id is not a member.
RemovedAfterSecond ==
    \A r \in Slots, p \in Slots :
        SecondRemove(r, p) => ~Includes(StoredFavourites(r), req[r].body.movieId)

\* C3: remove never returns an error for an existing user (member or not),
\* and two removes in succession leave the set without the id.
C3_RemoveAlwaysSucceeds ==
    /\ \A r \in Slots : Handled(r, "remove") => req[r].resp.status = 200
    /\ RemovedAfterSecond

\* The lookups of an answered list that resolved, for movie id x.
ResolvedLookups(r, x) ==
    {i \in DOMAIN req[r].lookups :
        req[r].doc[1].favourites[i] = x /\ req[r].lookups[i] = "ok"}

ProtectedOps == {"profile", "add", "remove", "list"}

\* The request in slot r carried a credential: a non-empty second word in
\* its Authorization header.
Supplied(r) == Len(req[r].header) >= 2 /\ req[r].header[2] # Word("")

\* The credential is a token whose signature is the server's over the
\* payload it carries.
SignedByServer(r) ==
    /\ req[r].header[2].jwt # <<>>
    /\ LET token == req[r].header[2].jwt[1]
       IN  token.sig = [key |-> JwtSecret, over |-> token.payload]

\* The credential is a token that had expired when the request arrived.
Expired(r) ==
    /\ req[r].header[2].jwt # <<>>
    /\ req[r].header[2].jwt[1].payload.exp <= req[r].at

\* The middleware answered the request itself, with this status.
Rejected(r, status) ==
    req[r].pc = "done" /\ req[r].user = <<>> /\ req[r].resp.status = status

\* The middleware called next(): the route handler runs, or has answered.
HandlerRuns(r) == req[r].user # <<>>

\* C5: a request to a protected route ends in exactly one of: 401 (no token
\* supplied), 403 (token supplied, verification failed), or the handler
\* running with the decoded claims attached; the handler never runs for a
\* missing or failing token.
C5_MiddlewareOutcomes ==
    \A r \in Slots :
        req[r].op \in ProtectedOps =>
            /\ ~Supplied(r) =>
                   Rejected(r, 401) /\ req[r].resp.message = "Access token required"
            /\ Supplied(r) /\ ~(SignedByServer(r) /\ ~Expired(r)) => Rejected(r, 403)
            /\ Supplied(r) /\ SignedByServer(r) /\ ~Expired(r) =>
                   /\ HandlerRuns(r)
                   /\ req[r].user[1] = req[r].header[2].jwt[1].payload
            /\ HandlerRuns(r) => ~Rejected(r, 401) /\ ~Rejected(r, 403)

\* The handler of a protected favourites route ran with the claims attached.
C5_Witness ==
    \E r \in Slots :
        /\ req[r].op = "list" /\ HandlerRuns(r) /\ req[r].resp.status = 200
        /\ req[r].user[1].userId = 1

\* C6: the middleware lets a request continue only if its token is signed
\* with the server's secret and the time of the request is before the
\* token's expiry; an expired token is rejected with 403 whether or not its
\* signature is valid.
C6_OnlyFreshSignedTokens ==
    \A r \in Slots :
        req[r].op \in ProtectedOps =>
            /\ HandlerRuns(r) =>
                   /\ Supplied(r) /\ SignedByServer(r)
                   /\ req[r].at < req[r].header[2].jwt[1].payload.exp
            /\ Supplied(r) /\ Expired(r) => Rejected(r, 403)

\* A validly signed token was rejected because it had expired.
C6_Witness ==
    \E r \in Slots :
        /\ req[r].op \in ProtectedOps
        /\ Supplied(r) /\ SignedByServer(r) /\ Expired(r)
        /\ Rejected(r, 403)

\* The login answered last, in slot r, came after the successful register
\* answered in slot p, with the same email and password.
LoginAfterRegister(r, p) ==
    /\ req[r].op = "login" /\ req[r].pc = "done" /\ lastDone = r
    /\ p # r /\ req[p].op = "register" /\ req[p].pc = "done"
    /\ req[p].resp.status = 201
    /\ req[p].body.email = req[r].body.email
    /\ req[p].body.password = req[r].body.password

\* C7: a login with the email and password of an earlier successful
\* register succeeds, with a token whose userId is the id of the user
\* record that register created.
C7_LoginAfterRegister ==
    \A r \in Slots, p \in Slots :
        LoginAfterRegister(r, p) =>
            /\ req[r].resp.status = 200
            /\ req[r].resp.token # <<>>
            /\ req[r].resp.token[1].payload.userId = req[p].resp.user[1].id
            /\ req[r].resp.token[1].sig.key = JwtSecret
            /\ \E i \in DOMAIN users :
                   /\ users[i].id = req[p].resp.user[1].id
                   /\ users[i].email = req[p].resp.user[1].email

\* ... also when the email was submitted in mixed case.
C7_Witness ==
    \E r \in Slots, p \in Slots :
        /\ LoginAfterRegister(r, p)
        /\ req[r].body.email = AliceMailUpper
        /\ req[r].resp.status = 200

\* An answered login that supplied both fields.
LoginTried(r) ==
    /\ req[r].op = "login" /\ req[r].pc = "done"
    /\ req[r].body.email # <<>> /\ req[r].body.password # ""

\* The email of the login in slot r is registered, with another password.
\* (Exact for the request answered last: the store has not changed since.)
WrongPassword(r) ==
    \E i \in DOMAIN users :
        /\ users[i].email = CastEmail(req[r].body.email)
        /\ users[i].password.digest # <<users[i].password.salt, req[r].body.password>>

\* No user has the email of the login in slot r (nor had when it was made:
\* users are never removed).
UnknownEmail(r) ==
    \A i \in DOMAIN users : users[i].email # CastEmail(req[r].body.email)

\* C8: a login with a registered email and a wrong password and a login
\* with an email no user has get the same status and message, 401 'Invalid
\* credentials'.
C8_SameInvalidCredentials ==
    \A r \in Slots :
        LoginTried(r) /\ lastDone = r =>
            /\ WrongPassword(r) \/ UnknownEmail(r) =>
                   /\ req[r].resp.status = 401
                   /\ req[r].resp.message = "Invalid credentials"
            /\ \A p \in Slots \ {r} :
                   /\ LoginTried(p)
                   /\ \/ WrongPassword(r) /\ UnknownEmail(p)
                      \/ UnknownEmail(r) /\ UnknownEmail(p)
                   => /\ req[p].resp.status = req[r].resp.status
                      /\ req[p].resp.message = req[r].resp.message

\* A wrong-password answer and an unknown-email answer side by side.
C8_Witness ==
    \E r \in Slots, p \in Slots :
        /\ p # r
        /\ LoginTried(r) /\ lastDone = r /\ LoginTried(p)
        /\ WrongPassword(r) /\ UnknownEmail(p)
        /\ req[r].resp.status = 401 /\ req[p].resp.status = 401

\* C9: a register rejected while its email (after normalisation) is that of
\* an existing user is told 'Email already registered', also when its
\* username collides too; 'Username already taken' is reported only when
\* the email does not collide.
C9_EmailConflictNamed ==
    \A r \in Slots :
        /\ req[r].op = "register" /\ req[r].pc = "done" /\ lastDone = r
        /\ req[r].resp.status = 400
        /\ req[r].resp.message \in {"Email already registered", "Username already taken"}
        /\ \E i \in DOMAIN users : users[i].email = CastEmail(req[r].body.email)
        => req[r].resp.message = "Email already registered"

\* C10: no two user records share a username, and no two share an email,
\* whatever the interleaving of register requests.
C10_UniqueUsers ==
    \A i \in DOMAIN users, j \in DOMAIN users :
        i # j => /\ users[i].username # users[j].username
                 /\ users[i].email # users[j].email
                 /\ users[i].id # users[j].id

\* Two registers raced past findOne; the collection has two users and the
\* insert of a valid third document was refused.
C10_Witness ==
    \E r \in Slots :
        /\ req[r].op = "register" /\ req[r].pc = "done"
        /\ req[r].resp.status = 500
        /\ Len(CastUsername(req[r].body.username)) >= UsernameMinLength
        /\ Len(users) >= 1

\* Why jwt.verify refuses the credential of this header at time t ("ok" when
\* it does not; "none" when the header carries no credential).
FailureReason(header, t) ==
    IF NoToken(ExtractToken(header)) THEN "none"
    ELSE JwtVerifyError(ExtractToken(header)[1], JwtSecret, t)

VerificationFails(header, t) == FailureReason(header, t) \notin {"none", "ok"}

\* C11: the rejection of a token that fails verification is the same
\* whatever the reason (bad signature, expired, malformed): every answered
\* request whose token failed got status 403 and a message, and nothing
\* else, equal to what any other failing header gets at any time.
C11_SameRejection ==
    \A r \in Slots :
        /\ req[r].op \in ProtectedOps /\ req[r].pc = "done"
        /\ VerificationFails(req[r].header, req[r].at)
        => /\ req[r].resp.status = 403
           /\ req[r].resp = [NoResp EXCEPT !.status = 403,
                                           !.message = req[r].resp.message]
           /\ \A h \in AllHeaders, t \in 0..now :
                  VerificationFails(h, t) =>
                      /\ AuthenticateToken(h, t).status = req[r].resp.status
                      /\ AuthenticateToken(h, t).message = req[r].resp.message

\* An expired token was rejected while a forged and a malformed credential
\* exist that fail for the two other reasons.
C11_Witness ==
    \E r \in Slots :
        /\ req[r].op \in ProtectedOps /\ req[r].pc = "done"
        /\ FailureReason(req[r].header, req[r].at) = "jwt expired"
        /\ req[r].resp.status = 403
        /\ \E h \in AllHeaders : FailureReason(h, now) = "invalid signature"
        /\ \E h \in AllHeaders : FailureReason(h, now) = "jwt malformed"

\* The routes of authController.
AccountOps == {"register", "login", "profile"}

\* The fields of the public view of a user, and of a token's claims.
PublicFields == {"id", "username", "email", "favourites", "createdAt"}
ClaimFields == {"userId", "username", "email", "iat", "exp"}

\* The credential hashes a response carries: in its user view or in the
\* payload of its token.
HashesIn(resp) ==
    (IF resp.user # <<>> /\ "password" \in DOMAIN resp.user[1]
         THEN {resp.user[1].password} ELSE {})
    \cup (IF resp.token # <<>> /\ "password" \in DOMAIN resp.token[1].payload
             THEN {resp.token[1].payload.password} ELSE {})

\* C12: no response of register, login or getProfile, success or error,
\* holds the stored credential hash of any user: its user view has only the
\* public fields, its token only the claims.
C12_NoCredentialHash ==
    \A r \in Slots :
        req[r].op \in AccountOps /\ req[r].pc = "done" =>
            /\ \A i \in DOMAIN users : users[i].password \notin HashesIn(req[r].resp)
            /\ req[r].resp.user # <<>> => DOMAIN req[r].resp.user[1] \subseteq PublicFields
            /\ req[r].resp.token # <<>> =>
                   DOMAIN req[r].resp.token[1].payload \subseteq ClaimFields
            /\ req[r].resp.favourites = <<>> /\ req[r].resp.movies = <<>>

\* A profile was sent for a user whose record holds a hash.
C12_Witness ==
    \E r \in Slots :
        /\ req[r].op = "profile" /\ req[r].pc = "done" /\ req[r].resp.status = 200
        /\ \E i \in DOMAIN users :
               /\ users[i].id = req[r].resp.user[1].id
               /\ BcryptCompare("secret1", users[i].password)

\* The add in slot r has passed its catalog lookup and has not answered.
PastLookup(r) == req[r].op = "add" /\ req[r].pc \in {"findById", "save"}

\* In this step the add in slot r is answered straight from its catalog
\* lookup: the lookup failed.
LookupFailed(r) ==
    /\ req[r].op = "add" /\ req[r].pc = "getMovieDetails"
    /\ req'[r].pc = "done"

\* In this step user i's favourites gain an occurrence of movie id x.
Inserted(i, x) ==
    /\ i \in DOMAIN users /\ i \in DOMAIN users'
    /\ Count(users'[i].favourites, x) > Count(users[i].favourites, x)

\* C13: add inserts only an id the catalog confirmed during the same
\* request: an add whose lookup fails is answered 404 'Movie not found' and
\* changes no stored favourites; an add goes past its lookup only with an id
\* the catalog knows; and every insertion is the save of an add that is
\* past its lookup of that id.
C13_OnlyConfirmedInserted ==
    [][/\ \A r \in Slots :
            /\ LookupFailed(r) =>
                   /\ req'[r].resp.status = 404
                   /\ req'[r].resp.message = "Movie not found"
                   /\ users' = users
            /\ PastLookup(r)' => req'[r].body.movieId \in CatalogIds
            /\ req[r].op = "add" /\ req[r].pc = "getMovieDetails"
                   /\ req[r].body.movieId \notin CatalogIds
                   /\ req'[r] # req[r]
               => LookupFailed(r)
       /\ \/ users' = users
          \/ \A i \in DOMAIN users : \A x \in CatalogIds \cup {UnknownId} :
               Inserted(i, x) =>
                   /\ x \in CatalogIds
                   /\ \E r \in Slots :
                          /\ req[r].op = "add" /\ req[r].pc = "save"
                          /\ req[r].body.movieId = x
                          /\ req[r].doc[1].id = users[i].id
      ]_vars

\* An add of an id the catalog does not know was answered 404 and the id
\* is not stored, while a confirmed id is.
C13_Witness ==
    \E r \in Slots :
        /\ Handled(r, "add") /\ lastDone = r
        /\ req[r].body.movieId = UnknownId
        /\ req[r].resp.status = 404 /\ req[r].resp.message = "Movie not found"
        /\ StoredFavourites(r) # <<>>
        /\ ~Includes(StoredFavourites(r), UnknownId)

\* The request answered in slot r changed favourites and its save was
\* applied: a successful add, or a successful remove of a member.
SaveApplied(r) ==
    /\ req[r].resp.status = 200
    /\ \/ Handled(r, "add")
       \/ Handled(r, "remove") /\ req[r].doc[1].change = "set"

\* C14: once two requests that change the same user's favourites have both
\* completed, the persisted favourites are the set computed (and sent back)
\* by the request whose save was applied last.
C14_LastWriteWins ==
    \A r \in Slots, p \in Slots :
        /\ p # r /\ lastDone = r
        /\ SaveApplied(r)
        /\ Handled(p, "add") \/ Handled(p, "remove")
        /\ req[p].user[1].userId = req[r].user[1].userId
        => Members(StoredFavourites(r)) = Members(req[r].resp.favourites)

\* In this step the list in slot r, having read the user document, starts
\* its catalog lookups.
LookupsIssued(r) ==
    /\ req[r].op = "list" /\ req[r].pc = "findById"
    /\ req'[r].pc = "lookups"

\* The list in slot r is waiting for its lookups, before and after this step.
Waiting(r) ==
    /\ req[r].op = "list" /\ req[r].pc = "lookups"
    /\ req'[r].pc \in {"lookups", "done"}

ResolvedAt(lookups) == {i \in DOMAIN lookups : lookups[i] = "ok"}
NthOf(S, n) == CHOOSE i \in S : Cardinality({k \in S : k < i}) = n - 1

\* The snapshot restricted to the resolved positions, in stored order.
ResolvedInStoredOrder(favourites, lookups) ==
    [n \in 1..Cardinality(ResolvedAt(lookups)) |->
        MovieDetails(favourites[NthOf(ResolvedAt(lookups), n)])]

\* The answered lists a client has recorded.
ListsRecorded == {k \in DOMAIN log : log[k].op = "list" /\ log[k].resp.status = 200}

\* C16: the sequence list returns is the snapshot, in stored order,
\* restricted to the entries that resolved, whatever the order in which the
\* lookups settled: two lists of the same snapshot with the same outcomes
\* return the same sequence.
C16_OrderIndependent ==
    \A k \in ListsRecorded :
        /\ log[k].resp.movies
               = ResolvedInStoredOrder(log[k].doc[1].favourites, log[k].lookups)
        /\ \A j \in ListsRecorded :
               /\ log[j].doc[1].favourites = log[k].doc[1].favourites
               /\ log[j].lookups = log[k].lookups
               => log[j].resp.movies = log[k].resp.movies

\* Two lists of the same two favourites, both resolved, whose lookups
\* settled in opposite orders.
C16_Witness ==
    \E k \in ListsRecorded, j \in ListsRecorded :
        /\ log[k].doc[1].favourites = log[j].doc[1].favourites
        /\ log[k].lookups = <<"ok", "ok">> /\ log[j].lookups = <<"ok", "ok">>
        /\ log[k].settled = <<1, 2>> /\ log[j].settled = <<2, 1>>
        /\ log[k].resp.movies = log[j].resp.movies
        /\ Len(log[k].resp.movies) = 2

\* An answered register whose body has all three fields, a password of the
\* required length and a username shorter than the minimum.
ShortUsername(r) ==
    /\ req[r].op = "register" /\ req[r].pc = "done"
    /\ req[r].body.username # <<>> /\ req[r].body.email # <<>>
    /\ Len(req[r].body.password) >= PasswordMinLength
    /\ Len(req[r].body.username) < UsernameMinLength

\* No user is stored under the short username.
ShortUsernameNotPersisted ==
    \A r \in Slots :
        ShortUsername(r) =>
            \A i \in DOMAIN users : users[i].username # CastUsername(req[r].body.username)

\* C17: a register with a username shorter than 3 characters is answered
\* with a 400-class validation failure, and no user is persisted.
C17_ShortUsernameIs400 ==
    /\ \A r \in Slots : ShortUsername(r) => req[r].resp.status \in 400..499
    /\ ShortUsernameNotPersisted

\* The string has the shape of an email address: an '@' with something
\* before it and something after it.
HasEmailShape(email) == \E i \in 2..(Len(email) - 1) : email[i] = "@"

\* An answered register with a valid username and password and an email
\* that does not have the shape of an email address.
MalformedEmail(r) ==
    /\ req[r].op = "register" /\ req[r].pc = "done"
    /\ Len(CastUsername(req[r].body.username)) >= UsernameMinLength
    /\ Len(req[r].body.password) >= PasswordMinLength
    /\ req[r].body.email # <<>>
    /\ ~HasEmailShape(req[r].body.email)

\* C18: a register with an email that does not have the shape of an email
\* address fails, persists no user and mints no token.
C18_MalformedEmailRejected ==
    \A r \in Slots :
        MalformedEmail(r) =>
            /\ req[r].resp.status \in 400..499
            /\ req[r].resp.token = <<>>
            /\ \A i \in DOMAIN users : users[i].email # CastEmail(req[r].body.email)

\* In this step the getProfile in slot r is answered.
ProfileAnswered(r) ==
    /\ req[r].op = "profile" /\ req[r].pc = "findById"
    /\ req'[r].pc = "done"

\* C19: getProfile answers with the user record as persisted when it reads
\* it, found by the token's userId: the favourites sent are the stored ones
\* whatever was added or removed since the token was issued; and it answers
\* 404 'User not found' when no record with that id exists any more.
C19_ProfileIsPersistedState ==
    [][\A r \in Slots :
          ProfileAnswered(r) =>
              LET userId == req[r].user[1].userId
              IN  /\ users' = users
                  /\ userId \in Ids =>
                         /\ req'[r].resp.status = 200
                         /\ req'[r].resp.user = <<ProfileView(users[IndexOf(userId)])>>
                         /\ req'[r].resp.user[1].favourites
                                = users[IndexOf(userId)].favourites
                  /\ userId \notin Ids =>
                         /\ req'[r].resp.status = 404
                         /\ req'[r].resp.message = "User not found"
                         /\ req'[r].resp.user = <<>>
      ]_vars

\* A profile sent with the favourites stored after an add, a remove and an
\* add.
C19_Witness ==
    \E r \in Slots :
        /\ Handled(r, "profile") /\ req[r].resp.status = 200
        /\ req[r].resp.user[1].favourites = <<"603">>
        /\ \E i \in DOMAIN users :
               /\ users[i].id = req[r].user[1].userId
               /\ users[i].favourites = <<"603">> /\ users[i].v = 3

\* A profile asked with the token of a deleted account was answered 404.
ProfileOfDeleted ==
    \E r \in Slots :
        /\ Handled(r, "profile") /\ req[r].resp.status = 404
        /\ req[r].user[1].userId \in gone

\* The end-to-end scenario: the requests in order, with the status each is
\* to be answered with.
Scenario ==
    <<[op |-> "register", movieId |-> "", status |-> 201],
      [op |-> "login", movieId |-> "", status |-> 200],
      [op |-> "add", movieId |-> "603", status |-> 200],
      [op |-> "list", movieId |-> "", status |-> 200],
      [op |-> "remove", movieId |-> "603", status |-> 200],
      [op |-> "list", movieId |-> "", status |-> 200]>>

\* The first n requests the client made, from the empty store, are the
\* first n of the scenario.
Follows(n) ==
    /\ n <= Recorded
    /\ \A k \in 1..n :
           /\ log[k + 1].op = Scenario[k].op
           /\ log[k + 1].body.movieId = Scenario[k].movieId
           /\ log[k + 1].op = "register" =>
                  /\ log[k + 1].body.username = AliceFull
                  /\ log[k + 1].body.email = AliceFullMail
                  /\ log[k + 1].body.password = "secret1"
           /\ log[k + 1].op = "login" =>
                  /\ log[k + 1].body.email = AliceFullMail
                  /\ log[k + 1].body.password = "secret1"

\* C20: from an empty store, with a catalog that resolves "603", the
\* sequence register(alice, alice@x.com, secret1), login, add "603", list,
\* remove "603", list succeeds at every step; the first list returns
\* exactly one item, with id 603, and the second list the empty sequence.
C20_EndToEnd ==
    \A n \in 1..Len(Scenario) :
        Follows(n) =>
            /\ log[n + 1].resp.status = Scenario[n].status
            /\ n \in {1, 2} => log[n + 1].resp.token # <<>>
            /\ n = 3 => log[n + 1].resp.favourites = <<"603">>
            /\ n = 4 =>
                   /\ Len(log[n + 1].resp.movies) = 1
                   /\ log[n + 1].resp.movies[1].id = 603
            /\ n = 5 => log[n + 1].resp.favourites = <<>>
            /\ n = 6 => log[n + 1].resp.movies = <<>>

\* The client went through the whole scenario.
C20_Witness ==
    /\ Follows(Len(Scenario))
    /\ log[5].resp.movies = <<MovieDetails("603")>>
    /\ log[7].resp.movies = <<>>
    /\ users[1].favourites = <<>>

\* The tokens a state shows: held by a client, just sent in a response, or
\* carried by a request.
TokensSeen ==
    wallet
    \cup UNION {{req[r].resp.token[k] : k \in DOMAIN req[r].resp.token} : r \in Slots}
    \cup {req[r].header[2].jwt[1] :
             r \in {p \in Slots : Len(req[p].header) >= 2 /\ req[p].header[2].jwt # <<>>}}

\* In this step the request in slot r is answered with a token.
Minted(r) ==
    /\ req[r].pc # "done" /\ req'[r].pc = "done"
    /\ req'[r].resp.token # <<>>

\* The middleware's verdict on a token presented at time t.
Accepts(token, t) == AuthenticateToken(<<Word("Bearer"), JwtWord(token)>>, t).status = 0

\* C21: a token minted by register or login at time t expires at t + 7
\* days; the middleware accepts it at every time before that and rejects it
\* from then on, whether or not the client still holds it and whatever was
\* requested in between.
C21_SevenDaysNoRevocation ==
    /\ [][\A r \in Slots :
             Minted(r) =>
                 /\ req'[r].resp.token[1].payload.iat = now
                 /\ req'[r].resp.token[1].payload.exp = now + TokenTTL
                 /\ req'[r].resp.token[1].sig.key = JwtSecret
         ]_vars
    /\ [](/\ \A token \in TokensSeen :
                /\ token.payload.exp = token.payload.iat + TokenTTL
                /\ \A t \in token.payload.iat..(MaxTime + 1) :
                       Accepts(token, t) <=> t < token.payload.iat + TokenTTL
           /\ \A r \in Slots :
                req[r].op \in ProtectedOps =>
                    LET presented == req[r].header[2].jwt[1]
                    IN  /\ HandlerRuns(r) <=> req[r].at < presented.payload.iat + TokenTTL
                        /\ ~HandlerRuns(r) => Rejected(r, 403))

\* A token minted at day 0 and discarded by the client was accepted on day
\* 6, after a later login and a change of the favourites.
C21_Witness ==
    \E r \in Slots, p \in Slots :
        /\ Handled(r, "add") /\ req[r].prevSlot = p
        /\ req[r].header[2].jwt[1].payload.iat = 0
        /\ req[r].at = TokenTTL - 1
        /\ req[r].header[2].jwt[1] \notin wallet
        /\ req[p].op = "login" /\ req[p].resp.status = 200
        /\ req[p].resp.token[1].payload.iat > 0
        /\ req[r].resp.status = 400

\* In this step the add or remove in slot r, made with the identity of the
\* user with this id, is answered 200 from its save.
SuccessfulChangeBy(r, id) ==
    /\ req[r].op \in {"add", "remove"} /\ req[r].pc = "save"
    /\ req'[r].pc = "done" /\ req'[r].resp.status = 200
    /\ req[r].user[1].userId = id

\* C22: the persisted favourites of a user change only in a successful add
\* or remove made with that user's own identity; register, login,
\* getProfile and list (its lookups failing or not) and the requests of
\* other users leave them as they are.
C22_OnlyOwnAddRemoveChanges ==
    [][\A i \in DOMAIN users :
          /\ i \in DOMAIN users'
          /\ users'[i].id = users[i].id
          /\ users'[i].favourites # users[i].favourites =>
                 \E r \in Slots : SuccessfulChangeBy(r, users[i].id)
      ]_vars

\* Bob has no favourite, Alice has one, and a list of hers whose lookup
\* failed was answered with nothing.
C22_Witness ==
    \E r \in Slots :
        /\ Handled(r, "list") /\ lastDone = r
        /\ req[r].lookups = <<"null">> /\ req[r].resp.movies = <<>>
        /\ Len(users) = 2
        /\ StoredFavourites(r) = <<"603">>
        /\ \E i \in DOMAIN users :
               users[i].id # req[r].user[1].userId /\ users[i].favourites = <<>>

\* The register in slot r is answered in this step.
RegisterAnswered(r) ==
    /\ req'[r].op = "register" /\ req'[r].pc = "done"
    /\ req[r] # req'[r]

\* This step adds exactly one record to the store, with these names and no
\* favourite, and answers the register in slot r with a token and the
\* public view of that record.
AddsOne(r, username, email) ==
    /\ Len(users') = Len(users) + 1
    /\ \A i \in DOMAIN users : users'[i] = users[i]
    /\ LET u == users'[Len(users')]
       IN  /\ u.username = username /\ u.email = email
           /\ u.favourites = <<>>
           /\ Len(req'[r].resp.token) = 1
           /\ req'[r].resp.user = <<RegisterView(u)>>

\* Every step of a register leaves the store as it is, except the one that
\* answers 201, which adds one record named by `stored`.
AllOrNothing(stored(_)) ==
    \A r \in Slots :
        /\ (req[r].op = "register" /\ req[r].pc # "done" /\ ~RegisterAnswered(r)
              /\ req'[r] # req[r]) => users' = users
        /\ RegisterAnswered(r) =>
               IF req'[r].resp.status = 201
                   THEN AddsOne(r, stored(req'[r].body).username,
                                stored(req'[r].body).email)
               ELSE /\ req'[r].resp.status \in {400, 500}
                    /\ users' = users

AsSubmitted(body) == [username |-> body.username, email |-> body.email]
AsCast(body) == [username |-> CastUsername(body.username),
                 email |-> CastEmail(body.email)]

\* C23 (as stated): register is all-or-nothing on the user store: a register
\* that fails leaves the user records unchanged, and one that succeeds
\* (201 with token and public user) has added exactly one record, with the
\* username and email exactly as submitted and no favourite.
C23_RegisterAllOrNothingAsSubmitted == [][AllOrNothing(AsSubmitted)]_vars

\* C23 (amended): register is all-or-nothing on the user store: a register
\* that fails leaves the user records unchanged, and one that succeeds has
\* added exactly one record, with the submitted username trimmed, the
\* submitted email trimmed and lowercased, and no favourite.
C23_RegisterAllOrNothing == [][AllOrNothing(AsCast)]_vars

\* A register with a mixed-case email was answered 201 and its record holds
\* the lowercased email, while another register was answered with an error.
C23_Witness ==
    \E r, p \in Slots :
        /\ req[r].op = "register" /\ req[r].pc = "done" /\ req[r].resp.status = 201
        /\ req[r].body.email = AliceMailUpper
        /\ \E i \in DOMAIN users : users[i].email = AliceMail
        /\ req[p].op = "register" /\ req[p].pc = "done" /\ req[p].resp.status = 500

\* This step is a step of the add in slot r.
AddSteps(r) == req'[r] # req[r] /\ req'[r].op = "add"

\* The add in slot r is answered with success in this step.
AddSucceeds(r) == AddSteps(r) /\ req'[r].pc = "done" /\ req'[r].resp.status = 200

\* The stored favourites of every user.
Persisted == [i \in DOMAIN users |-> [id |-> users[i].id,
                                       favourites |-> users[i].favourites]]

\* The add in slot r has gone past the check of its id: it waits for the
\* catalog or the store, or it has read or written a document.
PastIdCheck(r) ==
    \/ req[r].pc \in {"getMovieDetails", "findById", "save"}
    \/ req[r].doc # <<>>
    \/ req[r].lookups # <<>>
    \/ req[r].resp.status \in {404, 500, 200}

\* C24: every add that does not return success (no id, 400; id not
\* confirmed by the catalog, 404; user absent, 404; id already there, 400)
\* leaves the persisted favourites of every user unchanged, and an add
\* with an empty id is rejected before any catalog lookup or store access.
C24_FailedAddChangesNothing ==
    /\ [][\A r \in Slots :
             AddSteps(r) /\ ~AddSucceeds(r) => Persisted' = Persisted]_vars
    /\ [](\A r \in Slots :
             req[r].op = "add" /\ req[r].body.movieId = "" =>
                 /\ ~PastIdCheck(r)
                 /\ req[r].pc = "done"
                 /\ req[r].resp.status \in {400, 401, 403})

\* An add without id answered 400 and an add answered 404 because its user
\* is gone.
C24_Witness ==
    \E r, p \in Slots :
        /\ Handled(r, "add") /\ req[r].body.movieId = ""
        /\ req[r].resp.status = 400 /\ req[r].resp.message = "Movie ID is required"
        /\ Handled(p, "add") /\ req[p].resp.message = "User not found"
        /\ req[p].user[1].userId \in gone

\* The add or remove in slot r is answered with success in this step.
ChangeSucceeds(r) ==
    /\ req[r].op \in {"add", "remove"} /\ req[r].pc = "save"
    /\ req'[r].pc = "done" /\ req'[r].resp.status = 200
    /\ req[r].user[1].userId \in Ids

\* The persisted set after the step is the one before it plus (add) or
\* minus (remove) the named id.
ExactlyTheNamedId(r) ==
    LET i == IndexOf(req[r].user[1].userId)
        x == req[r].body.movieId
    IN  Members(users'[i].favourites) =
            IF req[r].op = "add" THEN Members(users[i].favourites) \cup {x}
            ELSE Members(users[i].favourites) \ {x}

\* The set in the response is the set persisted after the step.
ResponseIsPersisted(r) ==
    LET i == IndexOf(req[r].user[1].userId)
    IN  Members(req'[r].resp.favourites) = Members(users'[i].favourites)

\* C25: a successful add or remove changes the membership of exactly the
\* named id: after add(x) the persisted set is the previous one plus x,
\* after remove(x) the previous one minus x, every other id keeps its
\* membership, and the set in the response is the set persisted by that
\* request.
C25_ExactChangeAndResponse ==
    [][\A r \in Slots :
          ChangeSucceeds(r) => ExactlyTheNamedId(r) /\ ResponseIsPersisted(r)]_vars

\* The add in slot r has completed with success.
AddDone(r) == Handled(r, "add") /\ req[r].resp.status = 200

\* The adds in slots a and b are by the same user, for distinct ids, and
\* between the earlier of their reads and now the user's document was
\* written exactly twice: by them and by no other request.  Each then read
\* before the other had completed or just after it.
TwoAddsAlone(a, b) ==
    /\ a # b /\ AddDone(a) /\ AddDone(b)
    /\ req[a].user[1].userId = req[b].user[1].userId
    /\ req[a].body.movieId # req[b].body.movieId
    /\ req[a].user[1].userId \in Ids
    /\ LET va == req[a].doc[1].v
           vb == req[b].doc[1].v
           lo == IF va < vb THEN va ELSE vb
       IN  users[IndexOf(req[a].user[1].userId)].v = lo + 2

\* Both adds read the document before either saved.
BothReadFirst(a, b) == req[a].doc[1].v = req[b].doc[1].v

\* C26: no lost update between concurrent adds: when two adds by the same
\* user for two distinct confirmed ids, in flight together, have both
\* returned success and no other request touched that user, both ids are
\* members of the persisted favourites.
C26_NoLostUpdate ==
    \A a, b \in Slots :
        TwoAddsAlone(a, b) =>
            {req[a].body.movieId, req[b].body.movieId}
                \subseteq Members(StoredFavourites(a))

\* Two adds that both read the empty array have both succeeded, the later
\* one answering an array without the other's id.
C26_Witness ==
    \E a, b \in Slots :
        /\ TwoAddsAlone(a, b) /\ BothReadFirst(a, b)
        /\ lastDone = b
        /\ req[a].body.movieId \notin Members(req[b].resp.favourites)
        /\ Members(StoredFavourites(a)) = {"603", "27205"}

\* C27: every request gets exactly one response, provided each call it
\* awaits completes: never two responses, and a call that throws never
\* leaves the request without one.
C27_ExactlyOneResponse ==
    /\ [](\A r \in Slots :
             /\ req[r].sent <= 1
             /\ req[r].sent = 1 <=> req[r].pc = "done"
             /\ req[r].sent = 1 <=> req[r].resp.status # 0)
    /\ \A r \in Slots : (r \in InFlight) ~> (req[r].pc = "done")

\* A remove whose save threw a VersionError has been answered, once, with
\* 500, and the add that saved before it, once, with 200.
C27_Witness ==
    \E r, p \in Slots :
        /\ Handled(r, "remove") /\ req[r].resp.status = 500 /\ req[r].sent = 1
        /\ req[r].doc[1].change = "set"
        /\ Handled(p, "add") /\ req[p].resp.status = 200 /\ req[p].sent = 1

\* C28: in AuthProvider, under every interleaving of login, logout,
\* refreshUser and the start-up fetchUserProfile with their responses in
\* flight, a user that is not null implies a token stored in localStorage,
\* and after logout the user stays null and no token is stored until the
\* next successful login.
C28_UserImpliesToken ==
    /\ auth.user # <<>> => auth.token # <<>>
    /\ auth.loggedOut => auth.user = <<>> /\ auth.token = <<>>

\* A toggle request settles in this step.
Settles == Len(page'.inflight) < Len(page.inflight)

\* C29: a MovieCard has at most one favourite toggle in flight: a click
\* that arrives while the previous toggle has not settled starts no new add
\* or remove request, and the guard is released when the call settles,
\* whether it succeeded or failed.
C29_OneToggleInFlight ==
    /\ [](/\ Len(page.inflight) <= 1
          /\ page.isTogglingFavourite <=> page.inflight # <<>>)
    /\ [][/\ page.inflight # <<>> => Len(page'.inflight) <= Len(page.inflight)
          /\ Settles => ~page'.isTogglingFavourite /\ page'.last # "none"
         ]_vars

\* A click arrived while the toggle of the card was in flight and started
\* nothing.
C29_Witness ==
    /\ page.dropped = 1
    /\ page.isTogglingFavourite /\ Len(page.inflight) = 1
    /\ page.last = "failed"

\* The card shows the movie as a favourite.
Shown == CardMovie \in page.favouriteIds

\* C30: in SearchSection, after a toggle on a card completes successfully
\* the favourite state shown on the card equals the movie's new membership
\* on the server, so that the next click on the card sends the opposite
\* operation.
C30_CardShowsMembership ==
    [][/\ Settles /\ page'.last \in {"add", "remove"} =>
              (Shown' <=> Includes(users'[1].favourites, CardMovie))
       /\ (page.last \in {"add", "remove"}
              /\ Len(page'.inflight) > Len(page.inflight)) =>
              page'.inflight[Len(page'.inflight)].op # page.last
      ]_vars

=============================================================================
